---- MODULE Spec2Model ----
(***************************************************************************)
(* Model of app/processor.py: process_video(input_path, output_path,       *)
(* target_fps, max_frames, return_metrics).                                *)
(*                                                                         *)
(* One call of process_video is a sequential program; pc is its position.  *)
(* The collaborators (os.path, cv2.VideoCapture, cv2.VideoWriter,          *)
(* mediapipe Pose, the drawing calls) are the environment: what they       *)
(* answer, and whether they raise, is chosen nondeterministically.         *)
(*                                                                         *)
(* Numbers.  Frame rates are integers.  Landmark coordinates are           *)
(* normalised to [0,1] in the program; here they are integers in units of  *)
(* 1/1000, so a distance is an integer number of thousandths (ISqrt is the *)
(* floor of the square root) and avg_movement_intensity, which the program *)
(* rounds to 5 decimals, is an integer number of 1/100000.                 *)
(*                                                                         *)
(* An optional argument (default None) is a set: {} is None, {v} is v.     *)
(***************************************************************************)
EXTENDS Integers, Sequences, FiniteSets, TLC

\* ---------------------------------------------------------------- bounds
\* Largest number of frames in the input container.
MaxN == 3

\* ------------------------------------------------------ program constants
FallbackFps == 30
\* MediaPipe Pose returns 33 landmarks, indexed 0..32.
NumLandmarks == 33
left_idx == <<11, 13, 15, 23, 25, 27>>
right_idx == <<12, 14, 16, 24, 26, 28>>

\* ------------------------------------------------------------ input sets
\* target_fps: None, 0, a negative rate, a positive rate.
TargetFpsValues == {{}, {0}, {-5}, {10}}
\* CAP_PROP_FPS as reported by the decoder (0 when unknown).
SourceFpsValues == {0, 25}
\* max_frames: None, 0, or a positive cap.
MaxFramesValues == {{}} \cup {{m} : m \in 0..MaxN}

\* What the Pose Estimator may answer for a frame: no pose, or one of three
\* scripted keypoint sets.
PoseIds == {"P0", "PL", "PR"}
PoseResults == {"None"} \cup PoseIds

VARIABLES
    \* arguments and environment of the call
    input_exists,      \* os.path.isfile(input_path)
    target_fps,
    max_frames,
    nFrames,           \* frames in the input container
    badAt,             \* 1-based index of a frame that cannot be decoded, 0 if none
    src_fps,           \* frame rate the decoder reports
    outfile,           \* file at output_path: "absent", "old" (pre-existing), "new"
    outFrames,         \* frames actually in the output stream
    \* locals of process_video
    pc,
    cap, writer, pose, \* "none", "open", "failed", "released"
    in_fps, out_fps,
    metrics,
    prev_landmarks,
    movement_accumulator, total_points,
    left_movement, right_movement,
    frame_idx, written,
    results,           \* results.pose_landmarks of the current frame
    exc,               \* the exception in flight, "None" if none
    result,            \* the returned tuple, <<>> before the return
    \* history
    poseHist           \* for each frame given to the estimator: pose detected?

vars == <<input_exists, target_fps, max_frames, nFrames, badAt, src_fps,
          outfile, outFrames, pc, cap, writer, pose, in_fps, out_fps, metrics,
          prev_landmarks, movement_accumulator, total_points, left_movement,
          right_movement, frame_idx, written, results, exc, result, poseHist>>

inputs == <<input_exists, target_fps, max_frames, nFrames, badAt, src_fps>>
handles == <<cap, writer, pose>>
accumulator == <<prev_landmarks, movement_accumulator, total_points,
                 left_movement, right_movement>>

\* ------------------------------------------------------------- helpers
\* Python truthiness of an optional number: None and 0 are false.
Truthy(opt) == opt # {} /\ opt # {0}

Val(opt) == CHOOSE v \in opt : TRUE

Min(a, b) == IF a <= b THEN a ELSE b

RECURSIVE ISqrtBetween(_, _, _)
ISqrtBetween(n, lo, hi) ==
    IF lo >= hi THEN lo
    ELSE LET mid == (lo + hi + 1) \div 2
         IN  IF mid * mid <= n THEN ISqrtBetween(n, mid, hi)
                               ELSE ISqrtBetween(n, lo, mid - 1)

ISqrt(n) == IF n = 0 THEN 0 ELSE ISqrtBetween(n, 0, 2000)

\* round(a / b, 5) on values already scaled to 1/100000: round half to even.
RoundDiv(a, b) ==
    LET q == a \div b
        r == a % b
    IN  IF 2 * r > b THEN q + 1
        ELSE IF 2 * r < b THEN q
        ELSE IF q % 2 = 0 THEN q ELSE q + 1

\* The scripted keypoint sets: np.array([(lm.x, lm.y) ...]), 33 rows.
KeypointSet(id) ==
    [i \in 0..(NumLandmarks - 1) |->
        IF id = "PL" /\ i = 11 THEN <<800, 900>>
        ELSE IF id = "PR" /\ i = 12 THEN <<800, 900>>
        ELSE <<500, 500>>]

\* landmarks.shape[0]
Shape(id) == Cardinality(DOMAIN KeypointSet(id))

\* np.linalg.norm(landmarks - prev_landmarks, axis=1)
Diff(lm, prev) ==
    [i \in 0..(NumLandmarks - 1) |->
        ISqrt((KeypointSet(lm)[i][1] - KeypointSet(prev)[i][1])
                * (KeypointSet(lm)[i][1] - KeypointSet(prev)[i][1])
              + (KeypointSet(lm)[i][2] - KeypointSet(prev)[i][2])
                * (KeypointSet(lm)[i][2] - KeypointSet(prev)[i][2]))]

RECURSIVE SumAt(_, _)
\* diff[idx].sum()
SumAt(d, idx) ==
    IF idx = <<>> THEN 0 ELSE d[Head(idx)] + SumAt(d, Tail(idx))

RECURSIVE SumUpTo(_, _)
SumUpTo(d, k) == IF k < 0 THEN 0 ELSE d[k] + SumUpTo(d, k - 1)

\* diff.sum()
SumAll(d) == SumUpTo(d, NumLandmarks - 1)

\* in_fps = cap.get(cv2.CAP_PROP_FPS) or 30.0
InFps(reported) == IF reported # 0 THEN reported ELSE FallbackFps

\* out_fps = float(target_fps) if target_fps else in_fps
OutFps(tfps, ifps) == IF Truthy(tfps) THEN Val(tfps) ELSE ifps

StopAtMaxOffByOne(mf, idx) == Truthy(mf) /\ idx >= Val(mf)

\* if max_frames and frame_idx > max_frames: break
StopAtMax(mf, idx) == Truthy(mf) /\ idx > Val(mf)

\* ret of cap.read() for the frame after the idx frames already read
ReadOk(idx) == idx < nFrames /\ badAt # idx + 1

InitPrevLandmarksZero == "P0"

\* prev_landmarks = None
InitPrevLandmarks == "None"

CanCompareAlways(prev, lm) == Shape(lm) = Shape(prev)

\* if prev_landmarks is not None and landmarks.shape == prev_landmarks.shape
CanCompare(prev, lm) == prev # "None" /\ Shape(lm) = Shape(prev)

DominantLimbTieLeft(l, r) == IF l >= r THEN "left" ELSE "right"

\* "left" if left_movement > right_movement else "right"
DominantLimb(l, r) == IF l > r THEN "left" ELSE "right"

\* round(movement_accumulator / total_points, 5)
AvgIntensity(acc, tp) == RoundDiv(acc * 100, tp)

InitMetrics ==
    [frames_processed |-> 0, frames_with_pose |-> 0,
     avg_movement_intensity |-> 0, dominant_limb |-> "None"]

\* ---------------------------------------------------------------- Init
Init ==
    /\ input_exists \in BOOLEAN
    /\ target_fps \in TargetFpsValues
    /\ max_frames \in MaxFramesValues
    /\ nFrames \in 0..MaxN
    /\ badAt \in 0..nFrames
    /\ src_fps \in SourceFpsValues
    /\ outfile \in {"absent", "old"}
    /\ outFrames = 0
    /\ pc = "check"
    /\ cap = "none" /\ writer = "none" /\ pose = "none"
    /\ in_fps = 0 /\ out_fps = 0
    /\ metrics = InitMetrics
    /\ prev_landmarks = "None"
    /\ movement_accumulator = 0 /\ total_points = 0
    /\ left_movement = 0 /\ right_movement = 0
    /\ frame_idx = 0 /\ written = 0
    /\ results = "None"
    /\ exc = "None"
    /\ result = <<>>
    /\ poseHist = <<>>

\* -------------------------------------------------------------- actions
CheckInputSkipped ==
    /\ pc = "check"
    /\ pc' = "open_cap"
    /\ UNCHANGED <<inputs, outfile, outFrames, handles, in_fps, out_fps,
                   metrics, accumulator, frame_idx, written, results, exc,
                   result, poseHist>>

\* if not os.path.isfile(input_path): raise FileNotFoundError
CheckInput ==
    /\ pc = "check"
    /\ IF ~input_exists
         THEN pc' = "raised" /\ exc' = "FileNotFoundError"
         ELSE pc' = "open_cap" /\ exc' = exc
    /\ UNCHANGED <<inputs, outfile, outFrames, handles, in_fps, out_fps,
                   metrics, accumulator, frame_idx, written, results, result,
                   poseHist>>

\* cap = cv2.VideoCapture(input_path); isOpened check; in_fps, out_fps
OpenCapture ==
    /\ pc = "open_cap"
    /\ \E opened \in BOOLEAN :
         IF opened /\ input_exists
           THEN /\ cap' = "open"
                /\ in_fps' = InFps(src_fps)
                /\ out_fps' = OutFps(target_fps, InFps(src_fps))
                /\ pc' = "open_writer"
                /\ exc' = exc
           ELSE /\ cap' = "failed"
                /\ pc' = "raised"
                /\ exc' = "IOError"
                /\ UNCHANGED <<in_fps, out_fps>>
    /\ UNCHANGED <<inputs, outfile, outFrames, writer, pose, metrics,
                   accumulator, frame_idx, written, results, result, poseHist>>

\* writer = cv2.VideoWriter(output_path, ...); on failure release cap, raise
OpenWriter ==
    /\ pc = "open_writer"
    /\ \E opened \in BOOLEAN :
         IF opened
           THEN /\ writer' = "open"
                /\ outfile' = "new"
                /\ pc' = "init_pose"
                /\ UNCHANGED <<cap, exc>>
           ELSE /\ writer' = "failed"
                /\ outfile' \in {outfile, "new"}
                /\ cap' = "released"
                /\ pc' = "raised"
                /\ exc' = "IOError"
    /\ UNCHANGED <<inputs, outFrames, pose, in_fps, out_fps, metrics,
                   accumulator, frame_idx, written, results, result, poseHist>>

\* pose = mp_pose.Pose(...), then the metric and counter initialisation
InitPose ==
    /\ pc = "init_pose"
    /\ \/ /\ pose' = "open"
          /\ metrics' = InitMetrics
          /\ prev_landmarks' = InitPrevLandmarks
          /\ movement_accumulator' = 0 /\ total_points' = 0
          /\ left_movement' = 0 /\ right_movement' = 0
          /\ frame_idx' = 0 /\ written' = 0
          /\ pc' = "read"
          /\ exc' = exc
       \/ \* the constructor raises: nothing encloses it
          /\ pc' = "raised"
          /\ exc' = "PoseInitError"
          /\ UNCHANGED <<pose, metrics, accumulator, frame_idx, written>>
    /\ UNCHANGED <<inputs, outfile, outFrames, cap, writer, in_fps, out_fps,
                   results, result, poseHist>>

\* ret, frame = cap.read(); break on not ret; frame_idx += 1; max_frames break
ReadFrame ==
    /\ pc = "read"
    /\ \/ /\ ~ReadOk(frame_idx)
          /\ pc' = "finally"
          /\ UNCHANGED <<frame_idx, exc>>
       \/ /\ ReadOk(frame_idx)
          /\ frame_idx' = frame_idx + 1
          /\ pc' = IF StopAtMax(max_frames, frame_idx + 1)
                     THEN "finally" ELSE "infer"
          /\ exc' = exc
       \/ \* cap.read raises
          /\ pc' = "finally"
          /\ exc' = "ReadError"
          /\ UNCHANGED frame_idx
    /\ UNCHANGED <<inputs, outfile, outFrames, handles, in_fps, out_fps,
                   metrics, accumulator, written, results, result, poseHist>>

\* rgb = cv2.cvtColor(...); results = pose.process(rgb)
Infer ==
    /\ pc = "infer"
    /\ \/ \E r \in PoseResults :
            /\ results' = r
            /\ poseHist' = Append(poseHist, r # "None")
            /\ pc' = "update"
            /\ exc' = exc
       \/ \E e \in {"ConvertError", "InferenceError"} :
            /\ exc' = e
            /\ pc' = "finally"
            /\ UNCHANGED <<results, poseHist>>
    /\ UNCHANGED <<inputs, outfile, outFrames, handles, in_fps, out_fps,
                   metrics, accumulator, frame_idx, written, result>>

PoseUpdateResetOnMiss ==
    /\ pc = "update"
    /\ \/ /\ results = "None"
          /\ prev_landmarks' = "None"
          /\ pc' = "write"
          /\ UNCHANGED <<metrics, movement_accumulator, total_points,
                         left_movement, right_movement, exc>>
       \/ /\ results # "None"
          /\ metrics' = [metrics EXCEPT !.frames_with_pose = @ + 1]
          /\ \/ /\ exc' = "DrawError"
                /\ pc' = "finally"
                /\ UNCHANGED accumulator
             \/ /\ IF CanCompare(prev_landmarks, results)
                     THEN LET diff == Diff(results, prev_landmarks)
                          IN  /\ movement_accumulator' =
                                   movement_accumulator + SumAll(diff)
                              /\ total_points' = total_points + NumLandmarks
                              /\ left_movement' =
                                   left_movement + SumAt(diff, left_idx)
                              /\ right_movement' =
                                   right_movement + SumAt(diff, right_idx)
                     ELSE UNCHANGED <<movement_accumulator, total_points,
                                      left_movement, right_movement>>
                /\ prev_landmarks' = results
                /\ pc' = "write"
                /\ exc' = exc
    /\ UNCHANGED <<inputs, outfile, outFrames, handles, in_fps, out_fps,
                   frame_idx, written, results, result, poseHist>>

\* if results.pose_landmarks: count, draw, accumulate, remember
PoseUpdate ==
    /\ pc = "update"
    /\ \/ /\ results = "None"
          /\ pc' = "write"
          /\ UNCHANGED <<metrics, accumulator, exc>>
       \/ /\ results # "None"
          /\ metrics' = [metrics EXCEPT !.frames_with_pose = @ + 1]
          /\ \/ \* draw_landmarks raises
                /\ exc' = "DrawError"
                /\ pc' = "finally"
                /\ UNCHANGED accumulator
             \/ /\ IF CanCompare(prev_landmarks, results)
                     THEN LET diff == Diff(results, prev_landmarks)
                          IN  /\ movement_accumulator' =
                                   movement_accumulator + SumAll(diff)
                              /\ total_points' = total_points + NumLandmarks
                              /\ left_movement' =
                                   left_movement + SumAt(diff, left_idx)
                              /\ right_movement' =
                                   right_movement + SumAt(diff, right_idx)
                     ELSE UNCHANGED <<movement_accumulator, total_points,
                                      left_movement, right_movement>>
                /\ prev_landmarks' = results
                /\ pc' = "write"
                /\ exc' = exc
    /\ UNCHANGED <<inputs, outfile, outFrames, handles, in_fps, out_fps,
                   frame_idx, written, results, result, poseHist>>

\* cv2.putText(...); writer.write(frame); written += 1
WriteFrame ==
    /\ pc = "write"
    /\ \/ /\ outFrames' = outFrames + 1
          /\ written' = written + 1
          /\ pc' = "read"
          /\ exc' = exc
       \/ /\ exc' = "WriteError"
          /\ pc' = "finally"
          /\ UNCHANGED <<outFrames, written>>
    /\ UNCHANGED <<inputs, outfile, handles, in_fps, out_fps, metrics,
                   accumulator, frame_idx, results, result, poseHist>>

\* finally: pose.close(); writer.release(); cap.release()
Finally ==
    /\ pc = "finally"
    /\ pose' = "released"
    /\ writer' = "released"
    /\ cap' = "released"
    /\ pc' = IF exc = "None" THEN "finalize" ELSE "raised"
    /\ UNCHANGED <<inputs, outfile, outFrames, in_fps, out_fps, metrics,
                   accumulator, frame_idx, written, results, exc, result,
                   poseHist>>

FinalMetricsFrameIdx ==
    IF total_points > 0
      THEN [metrics EXCEPT
              !.frames_processed = frame_idx,
              !.avg_movement_intensity =
                  AvgIntensity(movement_accumulator, total_points),
              !.dominant_limb = DominantLimb(left_movement, right_movement)]
      ELSE [metrics EXCEPT !.frames_processed = frame_idx]

\* metrics["frames_processed"] = written; if total_points > 0: ...
FinalMetrics ==
    IF total_points > 0
      THEN [metrics EXCEPT
              !.frames_processed = written,
              !.avg_movement_intensity =
                  AvgIntensity(movement_accumulator, total_points),
              !.dominant_limb = DominantLimb(left_movement, right_movement)]
      ELSE [metrics EXCEPT !.frames_processed = written]

\* Finalize metrics and return
Finalize ==
    /\ pc = "finalize"
    /\ metrics' = FinalMetrics
    /\ \E return_metrics \in BOOLEAN :
         result' = IF return_metrics
                     THEN <<written, out_fps, FinalMetrics>>
                     ELSE <<written, out_fps>>
    /\ pc' = "returned"
    /\ UNCHANGED <<inputs, outfile, outFrames, handles, in_fps, out_fps,
                   accumulator, frame_idx, written, results, exc, poseHist>>

Next ==
    \/ CheckInput
    \/ OpenCapture
    \/ OpenWriter
    \/ InitPose
    \/ ReadFrame
    \/ Infer
    \/ PoseUpdate
    \/ WriteFrame
    \/ Finally
    \/ Finalize

Spec == Init /\ [][Next]_vars

TypeOK ==
    /\ pc \in {"check", "open_cap", "open_writer", "init_pose", "read",
               "infer", "update", "write", "finally", "finalize",
               "returned", "raised"}
    /\ written \in 0..nFrames
    /\ frame_idx \in 0..nFrames

\* ------------------------------------------------------- claim vocabulary
Terminated == pc \in {"returned", "raised"}

\* max_frames as the contract admits it: a positive integer.
MaxFramesSet == max_frames # {} /\ Val(max_frames) > 0

\* max_frames is None or satisfies the contract's precondition.
MaxFramesValid == max_frames = {} \/ Val(max_frames) > 0

\* N: the number of frames cap.read() delivers before it first fails.
Readable == IF badAt = 0 THEN nFrames ELSE badAt - 1

\* The requested frame range: all input frames, or the first max_frames.
Requested == IF MaxFramesSet THEN Min(Val(max_frames), nFrames) ELSE nFrames

PoseFrames == {i \in 1..Len(poseHist) : poseHist[i]}

AdjacentPosePair ==
    \E i \in 1..(Len(poseHist) - 1) : poseHist[i] /\ poseHist[i + 1]

\* Some displacement accumulator is changed by the step.
DisplacementUpdated ==
    \/ movement_accumulator' # movement_accumulator
    \/ total_points' # total_points
    \/ left_movement' # left_movement
    \/ right_movement' # right_movement

\* ------------------------------------------------------------------ C1
\* C1: on every exit path of process_video (return or raise) the decoder
\* handle, the encoder handle and the Pose session that the call opened
\* have been released.
C1_AllReleasedOnExit ==
    Terminated => cap # "open" /\ writer # "open" /\ pose # "open"

\* ------------------------------------------------------------------ C2
\* C2: on a successful run over N readable frames, framesWritten never
\* exceeds max_frames when it is set, never exceeds N, equals max_frames
\* when max_frames is a positive integer <= N, and equals N when max_frames
\* is None.
C2_FramesWrittenBound ==
    pc = "returned" =>
        /\ result[1] = written
        /\ MaxFramesSet => result[1] <= Val(max_frames)
        /\ result[1] <= Readable
        /\ (MaxFramesSet /\ Val(max_frames) <= Readable)
              => result[1] = Val(max_frames)
        /\ max_frames = {} => result[1] = Readable

C2_Witness ==
    /\ pc = "returned"
    /\ max_frames = {2}
    /\ nFrames = 3 /\ badAt = 0
    /\ result[1] = 2

\* ------------------------------------------------------------------ C3
\* C3: no partial success: a call that returns has processed the full
\* requested range (all input frames or the first max_frames), also when a
\* frame inside the range cannot be read; a call that raises returns nothing.
C3_NoPartialSuccess ==
    MaxFramesValid =>
        /\ pc = "returned" => written = Requested
        /\ pc = "raised" => result = <<>>

\* ------------------------------------------------------------------ C4
\* C4: when input_path is not an existing file the call raises
\* FileNotFoundError before any decoder, encoder or Pose session exists; no
\* file is created at output_path and a pre-existing one is untouched.
C4_NotFoundBeforeOpen ==
    (~input_exists /\ pc # "check") =>
        /\ pc = "raised"
        /\ exc = "FileNotFoundError"
        /\ cap = "none" /\ writer = "none" /\ pose = "none"
        /\ outfile # "new"
        /\ outFrames = 0
        /\ result = <<>>

C4_Witness ==
    ~input_exists /\ pc = "raised" /\ outfile = "old"

\* ------------------------------------------------------------------ C5
\* C5: the returned output frame rate is target_fps when target_fps is
\* given and > 0; in every other case (None, zero, not positive) it is the
\* source's reported rate, or 30 when the source reports zero.
C5_OutputFrameRate ==
    pc = "returned" =>
        result[2] = IF target_fps # {} /\ Val(target_fps) > 0
                      THEN Val(target_fps)
                      ELSE IF src_fps = 0 THEN FallbackFps ELSE src_fps

\* ------------------------------------------------------------------ C6
\* C6 as stated: on a successful run avg_movement_intensity >= 0, and it is
\* 0 whenever no two adjacent processed frames both had a pose.
C6_ZeroWithoutAdjacentPoses ==
    pc = "returned" =>
        /\ metrics.avg_movement_intensity >= 0
        /\ ~AdjacentPosePair => metrics.avg_movement_intensity = 0

\* C6 amended: on a successful run avg_movement_intensity >= 0, and it is 0
\* whenever fewer than two processed frames had a pose, adjacent or not.
C6_ZeroWithFewerThanTwoPoses ==
    pc = "returned" =>
        /\ metrics.avg_movement_intensity >= 0
        /\ Cardinality(PoseFrames) < 2 => metrics.avg_movement_intensity = 0
        /\ Len(result) = 3 => result[3] = metrics

C6_Witness ==
    /\ pc = "returned"
    /\ Len(poseHist) = 2
    /\ Cardinality(PoseFrames) = 1
    /\ metrics.avg_movement_intensity = 0

\* ------------------------------------------------------------------ C7
\* C7: in the returned metrics dominant_limb is "left", "right" or None; it
\* is None exactly when total_points is 0 at finalisation; otherwise it is
\* "left" exactly when left_movement > right_movement, and "right" in every
\* other case, ties included.
C7_DominantLimb ==
    pc = "returned" =>
        /\ metrics.dominant_limb \in {"left", "right", "None"}
        /\ metrics.dominant_limb = "None" <=> total_points = 0
        /\ total_points > 0 =>
             /\ metrics.dominant_limb = "left"
                   <=> left_movement > right_movement
             /\ metrics.dominant_limb = "right"
                   <=> left_movement <= right_movement
        /\ Len(result) = 3 => result[3].dominant_limb = metrics.dominant_limb

C7_Witness ==
    /\ pc = "returned"
    /\ total_points > 0
    /\ left_movement = right_movement /\ left_movement > 0
    /\ metrics.dominant_limb = "right"

\* ------------------------------------------------------------------ C8
\* C8: on a successful run frames_processed equals the returned
\* frames_written, which is the number of frames in the output stream, and
\* frames_with_pose <= frames_processed.
C8_FramesProcessed ==
    pc = "returned" =>
        /\ metrics.frames_processed = result[1]
        /\ result[1] = outFrames
        /\ metrics.frames_with_pose <= metrics.frames_processed
        /\ Len(result) = 3 => result[3] = metrics

C8_Witness ==
    /\ pc = "returned"
    /\ Len(result) = 3
    /\ outFrames = 2
    /\ frame_idx = 3
    /\ metrics.frames_with_pose = 1

\* ------------------------------------------------------------------ C9
\* C9 as stated: a displacement update happens on a frame only if that frame
\* and the immediately preceding processed frame both had a pose.
C9_UpdateOnlyBetweenAdjacentPoses ==
    [][DisplacementUpdated =>
          /\ Len(poseHist) >= 2
          /\ poseHist[Len(poseHist)]
          /\ poseHist[Len(poseHist) - 1]]_vars

\* C9 amended: a displacement update happens on a frame only if that frame
\* had a pose and some earlier processed frame had one; the earlier frame
\* need not be the immediately preceding one.
C9_UpdateOnlyAfterEarlierPose ==
    [][DisplacementUpdated =>
          /\ Len(poseHist) >= 2
          /\ poseHist[Len(poseHist)]
          /\ \E i \in 1..(Len(poseHist) - 1) : poseHist[i]]_vars

C9_Witness ==
    /\ poseHist = <<TRUE, FALSE, TRUE>>
    /\ total_points = NumLandmarks
    /\ movement_accumulator > 0

\* ----------------------------------------------------------------- C10
C10_NoPoseStep ==
    (pc = "update" /\ results = "None") =>
        /\ pc' = "write"
        /\ UNCHANGED accumulator
        /\ metrics'.frames_with_pose = metrics.frames_with_pose

C10_WriteStep ==
    (pc = "write" /\ exc' = "None") =>
        /\ written' = written + 1
        /\ outFrames' = outFrames + 1

C10_ZeroPoseRun ==
    (pc = "returned" /\ PoseFrames = {}) =>
        /\ metrics.frames_with_pose = 0
        /\ metrics.avg_movement_intensity = 0
        /\ metrics.dominant_limb = "None"
        /\ written = Len(poseHist)
        /\ written = IF Truthy(max_frames)
                       THEN Min(Val(max_frames), Readable) ELSE Readable
        /\ outFrames = written
        /\ outfile = "new"

\* C10: processing a frame without a pose leaves prev_landmarks, the four
\* displacement accumulators and frames_with_pose unchanged, and the frame is
\* still written and counted; a run without any pose writes all frames and
\* returns frames_with_pose = 0, avg_movement_intensity = 0, dominant_limb
\* None.
C10_NoPoseFrame ==
    /\ [][C10_NoPoseStep /\ C10_WriteStep]_vars
    /\ []C10_ZeroPoseRun

C10_Witness ==
    /\ pc = "returned"
    /\ Len(poseHist) = 2
    /\ PoseFrames = {}
    /\ written = 2
====
